---- MODULE Spec2Model ----
(***************************************************************************)
(* SensDot firmware (ESP32-C3, MicroPython): the wake/sleep coordination   *)
(* of main.py, pir_wakeup.py and mqtt_client.py as one state machine.      *)
(*                                                                         *)
(* One boot runs main() from the entry point: halt flag, button check,     *)
(* PIR auto-enable, the motion gatekeeper (check_pir_wake), then           *)
(* main_cycle(): WiFi, NTP, MQTT connect attempts, the second              *)
(* check_pir_wake call, and the monitoring loop with its sleep decision.   *)
(* Deep sleep ends the boot; only the RTC clock, the RTC retained memory   *)
(* and the configuration file are carried over to the next boot.           *)
(*                                                                         *)
(* Time is time.time(): whole seconds of the RTC.                          *)
(***************************************************************************)
EXTENDS Integers, Sequences, FiniteSets, TLC

VARIABLES
    pc,                  \* position of the boot: see PcValues
    wake_reason,         \* what PIRWakeup.get_wake_reason() returns in this boot
    clock,               \* time.time()
    rtc_mem,             \* RTC().memory(): retained bytes
    configured,          \* ConfigManager.is_configured()
    pir_enabled,         \* config['pir']['enabled']
    use_deep_sleep,      \* config['pir']['use_deep_sleep']
    min_wake_interval,   \* config['pir']['min_wake_interval']
    sleep_interval,      \* config['sleep_interval']
    sensor_interval,     \* config['sensor_interval']
    runtime_enabled,     \* IndicationManager.runtime_enabled
    led_on,              \* logical state of the indication LEDs
    wifi_connected,      \* SensDotMQTT.wifi.isconnected()
    mqtt_session,        \* SensDotMQTT.connected
    mqtt_connected,      \* main_cycle's local mqtt_connected
    attempt,             \* MQTT connection attempts that failed (the for loop's index)
    CONFIG_MODE_REQUEST, \* main.CONFIG_MODE_REQUEST
    CONFIG_MODE_DURATION,\* main.CONFIG_MODE_DURATION
    last_sensor_time,    \* main_cycle's local last_sensor_time
    sleep_secs,          \* timer handed to the suspend call (0: no timer)
    pir_armed,           \* a PIR wake source is armed for the current suspend
    \* ---- history variables (observations, never read by the program) ----
    decision,            \* outcome of the latest check_pir_wake of this boot
    gate_in,             \* what that check_pir_wake read: the clock, the stored
                         \* time as read, whether the read worked, last_accept as
                         \* it was before the call, and the bytes retained then
    gates_done,          \* check_pir_wake calls made in this boot
    pin_accepted,        \* a pin-level wake was accepted in this boot
    motion_sent,         \* the motion notification was published in this boot
    publish_failed,      \* a publish failed before the monitoring loop of this boot
    net_attempted,       \* connect_wifi/connect_mqtt was called in this boot
    sleep_site,          \* which code place suspended
    arm_tried,           \* that place tried to arm the PIR wake source
    portal_opened,       \* duration the STA portal was opened with (0: not opened)
    last_cmd,            \* the last command delivered by check_messages
    last_accept,         \* clock of the last accepted pin wake the memory still holds
    \* ---- the button ----
    pir_found,           \* the 'enabled' of the PIR section as main() found it in
                         \* this boot ("none": main() has not read it)
    boot_halt,           \* what main() just met at its halt check: "absent" (no
                         \* flag file), "found", "unlisted" (a flag file, but the
                         \* directory listing raised); "none" once main() has
                         \* moved on
    iter_fault,          \* where the latest pass of the monitoring loop raised
                         \* ("none": it did not)
    button_hold,         \* hold the user applies at this boot, as check_hold_on_boot
                         \* would measure it (centiseconds; 0: not pressed)
    btn,                 \* ButtonManager.check_hold_on_boot run on its own: see BtnIdle
    store,               \* the wake state store run on its own: see StoreIdle
    ind,                 \* an IndicationManager run on its own: see IndIdle
    cfgm,                \* a ConfigManager run on its own: see CfgIdle
    logf                 \* a Logger and its log files, run on its own: see LogIdle

vars == <<pc, wake_reason, clock, rtc_mem, configured, pir_enabled, use_deep_sleep,
          min_wake_interval, sleep_interval, sensor_interval, runtime_enabled, led_on,
          wifi_connected, mqtt_session, mqtt_connected, attempt,
          CONFIG_MODE_REQUEST, CONFIG_MODE_DURATION, last_sensor_time,
          sleep_secs, pir_armed, decision, gate_in, gates_done, pin_accepted,
          motion_sent, publish_failed, net_attempted, sleep_site, arm_tried,
          portal_opened, last_cmd, last_accept, pir_found, boot_halt, iter_fault,
          button_hold, btn, store, ind, cfgm, logf>>

\* ------------------------------------------------------------------ bounds

\* Largest clock reading explored.
MaxClock == 11

\* Longest successful WiFi association explored, in seconds (at most the
\* 10 one-second polls of connect_wifi).
MaxWifiDelay == 2

\* ------------------------------------------------------- program constants

RtcBlockLen == 32
TimestampLen == 8
MqttRetries == 3
MqttRetryDelay == 5
WifiTimeout == 10
DefaultConfigDuration == 600
IdleDelay == 1
BlinkDelay == 1
DiscoveryDelay == 2
PortalRebootDelay == 2
DefaultMinWakeInterval == 300

\* Configurations explored (seconds).
MinWakeIntervals == {0, 3}
SleepIntervals == {0, 2}
SensorIntervals == {1}

\* last_accept when the retained memory holds no accepted wake time.
NoTime == 0 - 1

PcValues == {"entry", "gate_main", "wifi", "mqtt", "monitor", "loop",
             "light_sleep", "deep_sleep", "ap_portal", "repl"}

WakeReasons == {"PIN_WAKE", "TIMER_WAKE", "OTHER", "NONE"}

\* What check_messages can deliver: nothing, a command payload, or a socket
\* error. The payloads "status" and "clear_logs" change nothing kept here and
\* count as "none".
Commands == {"none", "restart", "config_mode", "error"}

NoDecision == [kind |-> "None", secs |-> 0]
NoGateIn == [now |-> 0, last |-> 0, read_ok |-> TRUE, prev |-> NoTime, len |-> 0]

\* NTP corrections of the RTC explored (seconds added to the reading); a
\* correction can set the clock back by more than the association took.
NtpSkews == {-2, 0}

\* ------------------------------------------- persistent wake state store

RECURSIVE PackLE(_, _)
PackLE(v, n) == IF n = 0 THEN <<>> ELSE <<v % 256>> \o PackLE(v \div 256, n - 1)

RECURSIVE UnpackLE(_)
UnpackLE(b) == IF Len(b) = 0 THEN 0 ELSE b[1] + 256 * UnpackLE(Tail(b))

Zeros(n) == [i \in 1..n |-> 0]

\* A save whose failing write leaves the retained memory empty.
SaveMotionTime_ClearOnFail(mem, timestamp, write_ok) ==
    IF write_ok
    THEN PackLE(timestamp, TimestampLen) \o Zeros(RtcBlockLen - TimestampLen)
    ELSE <<>>

\* save_motion_time: struct.pack('<Q', timestamp) padded to 32 bytes; a
\* failing write leaves the memory as it was.
SaveMotionTime(mem, timestamp, write_ok) ==
    IF write_ok
    THEN PackLE(timestamp, TimestampLen) \o Zeros(RtcBlockLen - TimestampLen)
    ELSE mem

\* A read that reports 1 where nothing can be read.
GetLastMotionTime_FailOne(mem, read_ok) ==
    IF read_ok /\ Len(mem) >= TimestampLen
    THEN UnpackLE(SubSeq(mem, 1, TimestampLen))
    ELSE 1

\* get_last_motion_time: the first 8 bytes, or 0 when fewer are retained
\* or the read raises.
GetLastMotionTime(mem, read_ok) ==
    IF read_ok /\ Len(mem) >= TimestampLen
    THEN UnpackLE(SubSeq(mem, 1, TimestampLen))
    ELSE 0

\* The same store over the whole unsigned 64-bit range: a value is its four
\* 16-bit limbs, lowest first.
LimbBase == 256 * 256

U64(n) == <<n % LimbBase, n \div LimbBase, 0, 0>>

\* struct.pack('>Q', v): the bytes in the opposite order.
PackQ_BigEndian(v) ==
    <<v[4] \div 256, v[4] % 256, v[3] \div 256, v[3] % 256,
      v[2] \div 256, v[2] % 256, v[1] \div 256, v[1] % 256>>

\* struct.pack('<Q', v).
PackQ(v) ==
    <<v[1] % 256, v[1] \div 256, v[2] % 256, v[2] \div 256,
      v[3] % 256, v[3] \div 256, v[4] % 256, v[4] \div 256>>

\* struct.unpack('<Q', b)[0].
UnpackQ(b) ==
    <<b[1] + 256 * b[2], b[3] + 256 * b[4],
      b[5] + 256 * b[6], b[7] + 256 * b[8]>>

SaveMotionTimeQ(mem, v, write_ok) ==
    IF write_ok
    THEN PackQ(v) \o Zeros(RtcBlockLen - TimestampLen)
    ELSE mem

GetLastMotionTimeQ(mem, read_ok) ==
    IF read_ok /\ Len(mem) >= TimestampLen
    THEN UnpackQ(SubSeq(mem, 1, TimestampLen))
    ELSE U64(0)

\* Limbs the values are drawn from: the ends of the range and the byte
\* boundaries.
LimbSamples == {0, 1, 255, 256, LimbBase - 1}

U64Samples == LimbSamples \X LimbSamples \X LimbSamples \X LimbSamples

\* The store not running.
StoreIdle ==
    [pc |-> "idle", value |-> U64(0), back |-> U64(0), wrote |-> FALSE,
     read_ok |-> FALSE]

\* ---------------------------------------------------- motion gatekeeper

\* An interval check that lets a wake through one second early.
CheckMotionInterval_Early(now, last, min_interval) ==
    IF last = 0
    THEN [cont |-> TRUE, since |-> 0]
    ELSE IF now - last + 1 >= min_interval
         THEN [cont |-> TRUE, since |-> now - last]
         ELSE [cont |-> FALSE, since |-> now - last]

\* check_motion_interval: (should_continue, time_since_last).
CheckMotionInterval(now, last, min_interval) ==
    IF last = 0
    THEN [cont |-> TRUE, since |-> 0]
    ELSE IF now - last >= min_interval
         THEN [cont |-> TRUE, since |-> now - last]
         ELSE [cont |-> FALSE, since |-> now - last]

\* A gatekeeper that sleeps for the whole interval again on a suppressed wake.
HandleMotionWake_FullInterval(reason, now, last, min_interval) ==
    IF reason = "PIN_WAKE"
    THEN IF last = 0 \/ now - last >= min_interval
         THEN [kind |-> "Accept", secs |-> IF last = 0 THEN 0 ELSE now - last]
         ELSE [kind |-> "Suppress", secs |-> min_interval]
    ELSE [kind |-> "NotApplicable", secs |-> 0]

\* handle_motion_wake as a decision: Accept (continue the boot, save the
\* time), Suppress (deep sleep for secs more) or NotApplicable.
HandleMotionWake(reason, now, last, min_interval) ==
    IF reason = "PIN_WAKE"
    THEN LET c == CheckMotionInterval(now, last, min_interval)
         IN  IF c.cont
             THEN [kind |-> "Accept", secs |-> c.since]
             ELSE [kind |-> "Suppress", secs |-> min_interval - c.since]
    ELSE [kind |-> "NotApplicable", secs |-> 0]

\* ------------------------------------------------------------- indication

\* IndicationManager.on / off: no-ops unless runtime indications are enabled.
IndOn(lit) == IF runtime_enabled THEN TRUE ELSE lit

IndOff(lit) == IF runtime_enabled THEN FALSE ELSE lit

\* ---- IndicationManager in detail: pin levels, polarity, the AP blink ----

\* Blink counts explored.
BlinkTimes == {0, 1, 3}

\* The status LED is wired inverted: it is lit while its pin is low.
IntLit(level) == level = 0

\* The external LED is lit at low level when wired active-low, at high
\* level otherwise.
ExtLit(level, active_low) == IF active_low THEN level = 0 ELSE level = 1

\* "self.external_led and self.external_led_enabled"
HaveExt(s) == s.have_ext /\ s.external_led_enabled

\* An on() that does not look at the runtime gate.
LedOn_Ungated(s, wi, we) ==
    [s EXCEPT !.int_pin = IF s.have_int /\ wi THEN 0 ELSE @,
              !.ext_pin = IF HaveExt(s) /\ we THEN 1 ELSE @]

\* on(): nothing when runtime indications are disabled; else status_led.off()
\* and external_led.on(), each in its own try. wi and we tell whether the
\* writes to the status pin and to the external pin go through in this call.
LedOn(s, wi, we) ==
    IF ~s.runtime_enabled THEN s
    ELSE [s EXCEPT !.int_pin = IF s.have_int /\ wi THEN 0 ELSE @,
                   !.ext_pin = IF HaveExt(s) /\ we THEN 1 ELSE @]

\* An off() that toggles the pins.
LedOff_Toggle(s, wi, we) ==
    IF ~s.runtime_enabled THEN s
    ELSE [s EXCEPT !.int_pin = IF s.have_int /\ wi THEN 1 - @ ELSE @,
                   !.ext_pin = IF HaveExt(s) /\ we THEN 1 - @ ELSE @]

\* off(): nothing when runtime indications are disabled; else status_led.on()
\* and external_led.off(), each in its own try.
LedOff(s, wi, we) ==
    IF ~s.runtime_enabled THEN s
    ELSE [s EXCEPT !.int_pin = IF s.have_int /\ wi THEN 1 ELSE @,
                   !.ext_pin = IF HaveExt(s) /\ we THEN 0 ELSE @]

\* One try block of blink(): the status pin is written first, then the
\* external pin; a write that raises skips the rest of the block.
BlinkWrite(s, int_level, ext_level, wi, we) ==
    [s EXCEPT !.int_pin = IF s.have_int /\ wi THEN int_level ELSE @,
              !.ext_pin = IF HaveExt(s) /\ (s.have_int => wi) /\ we
                          THEN ext_level ELSE @]

\* The "for _ in range(times)" loop of blink(): off, delay, on, delay.
RECURSIVE BlinkPasses(_, _, _, _)
BlinkPasses(s, times, wi, we) ==
    IF times = 0 THEN s
    ELSE BlinkPasses(BlinkWrite(BlinkWrite(s, 1, 0, wi, we), 0, 1, wi, we),
                     times - 1, wi, we)

\* blink(times, delay, final_on): nothing when runtime indications are
\* disabled or no LED is available; else the passes, and a final off only
\* when final_on is false.
LedBlink(s, times, final_on, wi, we) ==
    IF ~s.runtime_enabled THEN s
    ELSE IF ~(s.have_int \/ HaveExt(s)) THEN s
    ELSE LET after == BlinkPasses(s, times, wi, we)
         IN  IF final_on THEN after ELSE BlinkWrite(after, 1, 0, wi, we)

\* _ap_vis_on / _ap_vis_off: the AP LED driven through _ap_inverted.
ApVis(s, lit, w) ==
    LET level == IF s.ap_inverted THEN (IF lit THEN 0 ELSE 1)
                 ELSE (IF lit THEN 1 ELSE 0)
    IN  IF ~w THEN s
        ELSE IF s.ap_led = "int" THEN [s EXCEPT !.int_pin = level]
        ELSE IF s.ap_led = "ext" THEN [s EXCEPT !.ext_pin = level]
        ELSE s

\* The AP LED is logically lit.
ApLit(s) ==
    IF s.ap_led = "int" THEN IntLit(s.int_pin)
    ELSE IF s.ap_led = "ext" THEN ExtLit(s.ext_pin, s.external_active_low)
    ELSE FALSE

\* An IndicationManager as __init__ leaves it, with no call in progress.
IndIdle ==
    [pc |-> "idle", runtime_enabled |-> TRUE, external_led_enabled |-> TRUE,
     external_active_low |-> FALSE, have_int |-> FALSE, have_ext |-> FALSE,
     int_pin |-> 0, ext_pin |-> 0,
     ap_timer |-> FALSE, ap_led |-> "none", ap_inverted |-> FALSE,
     ap_state |-> FALSE,
     \* history: the latest call, whether its writes went through, the
     \* levels before it, blink's arguments, consecutive off() calls and
     \* the levels the first of them left
     op |-> "none", wr_ok |-> TRUE, prev_int |-> 0, prev_ext |-> 0,
     times |-> 0, final_on |-> TRUE, offs |-> 0, off1_int |-> 0,
     off1_ext |-> 0, off1_ok |-> TRUE]

\* setup(): the flags from the gpio section, runtime_enabled taken from
\* external_led_enabled, the status LED driven dark, the external LED
\* driven low when enabled and to its safe-off level when disabled.
IndSetup(enabled, active_low, int_ok, ext_ok, int_level) ==
    [IndIdle EXCEPT
       !.pc = "ready",
       !.external_led_enabled = enabled,
       !.external_active_low = active_low,
       !.runtime_enabled = enabled,
       !.have_int = int_ok,
       !.int_pin = IF int_ok THEN 1 ELSE int_level,
       !.have_ext = enabled /\ ext_ok,
       !.ext_pin = IF enabled THEN 0 ELSE IF active_low THEN 1 ELSE 0]

\* ------------------------------------------------------------------ Logger

\* Values of max_files and max_file_size (bytes) explored, and the lengths
\* of a log entry with its newline.
MaxFilesSet == {1, 2, 3}
FileSizeLimits == {2, 3}
EntrySizes == {1, 2}

\* Largest size of the active file explored.
MaxLogBytes == 6

\* The files followed: slot 0 is the active file, slot i the file ".i".
LastSlot == 3
Slots == 0..LastSlot

NoFile == [exists |-> FALSE, size |-> 0]

\* os.remove(name): OSError (passed over) when the file does not exist.
Remove(files, i) == [files EXCEPT ![i] = NoFile]

\* os.rename(old, new): OSError (passed over) when old does not exist.
Rename(files, old, new) ==
    IF files[old].exists
    THEN [files EXCEPT ![new] = files[old], ![old] = NoFile]
    ELSE files

\* "for i in range(self.max_files - 2, 0, -1)": .i becomes .i+1
RECURSIVE ShiftFiles(_, _)
ShiftFiles(files, i) ==
    IF i < 1 THEN files ELSE ShiftFiles(Rename(files, i, i + 1), i - 1)

\* _rotate_files: nothing when the active file is missing or smaller than
\* max_file_size; else, "if self.max_files > 1", the oldest file is removed,
\* the others shifted and the active file renamed to ".1".
RotateFiles(files, max_files, max_file_size) ==
    IF ~files[0].exists THEN files
    ELSE IF files[0].size < max_file_size THEN files
    ELSE IF max_files > 1
    THEN Rename(ShiftFiles(Remove(files, max_files - 1), max_files - 2), 0, 1)
    ELSE files

\* open(self.log_file, 'a'); f.write(log_entry + '\n')
AppendEntry(files, entry) ==
    [files EXCEPT ![0] = [exists |-> TRUE, size |-> files[0].size + entry]]

\* No Logger in use.
LogIdle ==
    [pc |-> "idle", max_files |-> 1, max_file_size |-> 2,
     files |-> [i \in Slots |-> NoFile],
     op |-> "none", prev |-> [i \in Slots |-> NoFile], entry |-> 0,
     size_before |-> 0]

\* --------------------------------------------------------- ConfigManager

\* Defaults of the getters.
DefaultPirPin == 5
DefaultStatusLedPin == 8
DefaultSleepInterval == 60

\* A dict as the keys it holds and a value for each key it can hold (only
\* the values of held keys are ever read).
Dict(keys, val) == [keys |-> keys, val |-> val]

\* d.get(k, default)
Get(d, k, default) == IF k \in d.keys THEN d.val[k] ELSE default

\* d[k] raises KeyError when k is not held.
Raises(d, k) == k \notin d.keys

\* d[k] = v
Put(d, k, v) == [keys |-> d.keys \cup {k}, val |-> [d.val EXCEPT ![k] = v]]

GpioKeys == {"pir_pin", "status_led_pin"}
PirKeys == {"enabled", "pir_pin", "min_wake_interval", "use_deep_sleep"}

\* A stored gpio and pir section with every key, and the values a file
\* written by set_gpio_config / set_pir_config holds.
StoredGpio == [pir_pin |-> 4, status_led_pin |-> 7]
StoredPir == [enabled |-> TRUE, pir_pin |-> 4, min_wake_interval |-> 3,
              use_deep_sleep |-> FALSE]
StoredSleepInterval == 2

\* default_gpio of get_gpio_config (the keys followed here).
DefaultGpio ==
    Dict(GpioKeys, [pir_pin |-> DefaultPirPin, status_led_pin |-> DefaultStatusLedPin])

\* default_pir of get_pir_config for a gpio pin.
DefaultPir(pin) ==
    Dict(PirKeys, [enabled |-> FALSE, pir_pin |-> pin,
                   min_wake_interval |-> DefaultMinWakeInterval,
                   use_deep_sleep |-> TRUE])

\* _load_config: the parsed file, or {} when the file is missing or corrupt.
\* A blob is its top-level keys and its gpio and pir sections.
LoadConfig(file, blob) ==
    IF file = "stored" THEN blob
    ELSE [top |-> {}, gpio |-> blob.gpio, pir |-> blob.pir]

\* get_gpio_config: self.config.get('gpio', default_gpio)
GetGpioConfig(c) == IF "gpio" \in c.top THEN c.gpio ELSE DefaultGpio

\* get_pir_config: raises KeyError when the gpio section it gets holds no
\* 'pir_pin'; else the stored section (or default_pir) with 'pir_pin' set
\* from the gpio section and 'use_deep_sleep' added when missing. The
\* stored section itself is the dict that is changed.
GetPirConfig(c) ==
    LET g == GetGpioConfig(c)
    IN  IF Raises(g, "pir_pin")
        THEN [raised |-> TRUE, ret |-> Dict({}, StoredPir), config |-> c]
        ELSE LET p0 == IF "pir" \in c.top THEN c.pir ELSE DefaultPir(g.val.pir_pin)
                 p1 == Put(p0, "pir_pin", g.val.pir_pin)
                 p2 == IF "use_deep_sleep" \in p1.keys THEN p1
                       ELSE Put(p1, "use_deep_sleep", TRUE)
             IN  [raised |-> FALSE, ret |-> p2,
                  config |-> IF "pir" \in c.top THEN [c EXCEPT !.pir = p2] ELSE c]

\* Pins a caller passes to the setters.
SetPins == {3, 4}

\* set_pir_config: the 'pir' section is replaced by one with every key.
SetPirConfig(c, enabled, pin, min_wake, use_deep) ==
    [c EXCEPT !.top = @ \cup {"pir"},
              !.pir = Dict(PirKeys, [enabled |-> enabled, pir_pin |-> pin,
                                     min_wake_interval |-> min_wake,
                                     use_deep_sleep |-> use_deep])]

\* set_gpio_config: the 'gpio' section is replaced by one with every key.
SetGpioConfig(c, status_led_pin, pir_pin) ==
    [c EXCEPT !.top = @ \cup {"gpio"},
              !.gpio = Dict(GpioKeys, [pir_pin |-> pir_pin,
                                       status_led_pin |-> status_led_pin])]

\* PIRWakeup.__init__ with no pin given: gpio_config['pir_pin'] outside any
\* try, then load_config, which keeps the defaults when get_pir_config
\* raises.
PirWakeupInit(c) ==
    LET g == GetGpioConfig(c)
        r == GetPirConfig(c)
    IN  IF Raises(g, "pir_pin")
        THEN [raised |-> TRUE, pir_pin |-> 0, min_wake_interval |-> 0, config |-> c]
        ELSE [raised |-> FALSE, pir_pin |-> g.val.pir_pin,
              min_wake_interval |->
                  IF r.raised THEN DefaultMinWakeInterval
                  ELSE Get(r.ret, "min_wake_interval", DefaultMinWakeInterval),
              config |-> r.config]

\* The blobs explored: every subset of the top-level keys and of the keys
\* of each section.
Blobs ==
    {[top |-> t, gpio |-> Dict(gk, StoredGpio), pir |-> Dict(pk, StoredPir)] :
        t \in SUBSET {"sleep_interval", "gpio", "pir"},
        gk \in SUBSET GpioKeys, pk \in SUBSET PirKeys}

\* No ConfigManager in use.
CfgIdle ==
    [pc |-> "idle", file |-> "missing",
     config |-> [top |-> {}, gpio |-> Dict({}, StoredGpio), pir |-> Dict({}, StoredPir)],
     op |-> "none", raised |-> FALSE, ret_keys |-> {}, pir_pin |-> 0,
     min_wake_interval |-> 0, use_deep_sleep |-> FALSE, sleep_interval |-> 0,
     set_pin |-> 0]

\* ----------------------------------------------------------------- button

ShortHoldS == 5
LongHoldS == 20
DebounceMs == 50
MaxWaitS == 25
DefaultMaxWaitS == 21

\* One poll of the hold loop, time.sleep(0.1), and the classifier's
\* tolerance of 0.5 s, in centiseconds.
PollCs == 10
ToleranceCs == 50

\* Button configurations explored: <<short_hold_s, long_hold_s>>.
HoldConfigs == {<<ShortHoldS, LongHoldS>>, <<1, 2>>}

\* max_wait_s explored: the default of check_hold_on_boot and the value
\* check_config_reset passes.
MaxWaits == {DefaultMaxWaitS, MaxWaitS}

\* What a read of the pin can give: a level, or an exception (ReadFails).
ReadFails == 0 - 1

PinSamples == {0, 1, ReadFails}

\* Rounding error of the float sum hold += 0.1, below any poll's worth:
\* under, exact or over, depending on the build's float width.
FloatErrs == {0 - 1, 0, 1}

\* Holds at boot explored, as measured: none, a short hold (5 s), a long
\* hold (20 s).
BootHolds == {0, 500, 2000}

\* ConfigManager defines no get_button_config: ButtonManager.setup() raises
\* AttributeError on its first line.
ButtonConfigAvailable == FALSE

\* A read that treats an exception as the pressed level.
Pressed_FailPressed(sample, active_low) ==
    LET v == IF sample = ReadFails THEN (IF active_low THEN 0 ELSE 1) ELSE sample
    IN  IF active_low THEN v = 0 ELSE v = 1

\* ButtonManager._pressed: the pin level against the polarity; an exception
\* reads as the released level.
Pressed(sample, active_low) ==
    LET v == IF sample = ReadFails THEN (IF active_low THEN 1 ELSE 0) ELSE sample
    IN  IF active_low THEN v = 0 ELSE v = 1

\* The hold as the float holds it after a number of polls (centiseconds).
HoldValue(polls, err) == IF polls = 0 THEN 0 ELSE PollCs * polls + err

\* A loop test that forgets max_wait_s.
KeepPolling_NoCap(pressed, hold_cs, max_wait_s) == pressed

\* "while self._pressed() and hold < max_wait_s".
KeepPolling(pressed, hold_cs, max_wait_s) ==
    pressed /\ hold_cs < 100 * max_wait_s

\* A classifier without the 0.5 s tolerance.
ClassifyHold_NoTolerance(hold_cs, short_s, long_s) ==
    IF hold_cs >= 100 * long_s THEN "factory_reset"
    ELSE IF hold_cs >= 100 * short_s THEN "config_sta"
    ELSE "none"

\* A classifier with a whole second of tolerance.
ClassifyHold_WideTolerance(hold_cs, short_s, long_s) ==
    IF hold_cs >= 100 * long_s - 2 * ToleranceCs THEN "factory_reset"
    ELSE IF hold_cs >= 100 * short_s - 2 * ToleranceCs THEN "config_sta"
    ELSE "none"

\* check_hold_on_boot, lines 82-90: the classification of the measured hold.
ClassifyHold(hold_cs, short_s, long_s) ==
    IF hold_cs >= 100 * long_s - ToleranceCs THEN "factory_reset"
    ELSE IF hold_cs >= 100 * short_s - ToleranceCs THEN "config_sta"
    ELSE "none"

\* check_hold_on_boot not running.
BtnIdle ==
    [pc |-> "idle", active_low |-> TRUE, short_s |-> ShortHoldS,
     long_s |-> LongHoldS, max_wait_s |-> DefaultMaxWaitS, polls |-> 0,
     err |-> 0, reads |-> 0, fails |-> 0, slept_ms |-> 0, first |-> FALSE,
     last |-> FALSE, result |-> "pending"]

\* ----------------------------------------------------------- boot helpers

cfgvars == <<configured, pir_enabled, use_deep_sleep, min_wake_interval,
             sleep_interval, sensor_interval, runtime_enabled>>

ramvars == <<led_on, wifi_connected, mqtt_session, mqtt_connected, attempt,
             CONFIG_MODE_REQUEST, CONFIG_MODE_DURATION, last_sensor_time>>

sleepvars == <<sleep_secs, pir_armed, sleep_site, arm_tried>>

gatevars == <<decision, gate_in, gates_done, pin_accepted>>

unitvars == <<btn, store, ind, cfgm, logf>>

\* What machine.wake_reason() can give for a wake cause: the cause, or
\* None when the call raises (get_wake_reason).
GetWakeReason(cause) == {cause, "NONE"}

\* Program entry after a wake or reset: everything in RAM is fresh; the
\* clock and the retained memory are what the platform kept.
FreshBoot(reason, now, mem) ==
    /\ pc' = "entry"
    /\ wake_reason' = reason
    /\ clock' = now
    /\ rtc_mem' = mem
    /\ led_on' = FALSE
    /\ wifi_connected' = FALSE
    /\ mqtt_session' = FALSE
    /\ mqtt_connected' = FALSE
    /\ attempt' = 0
    /\ CONFIG_MODE_REQUEST' = FALSE
    /\ CONFIG_MODE_DURATION' = DefaultConfigDuration
    /\ last_sensor_time' = 0
    /\ sleep_secs' = 0
    /\ pir_armed' = FALSE
    /\ sleep_site' = "none"
    /\ arm_tried' = FALSE
    /\ decision' = NoDecision
    /\ gate_in' = NoGateIn
    /\ gates_done' = 0
    /\ pin_accepted' = FALSE
    /\ motion_sent' = FALSE
    /\ publish_failed' = FALSE
    /\ net_attempted' = FALSE
    /\ portal_opened' = 0
    /\ last_cmd' = "none"
    /\ pir_found' = "none"
    /\ boot_halt' = "none"
    /\ iter_fault' = "none"
    /\ button_hold' \in BootHolds
    /\ UNCHANGED unitvars

\* A check_config_reset that takes a press of any length for a factory reset.
CheckConfigReset_AnyPress(hold_cs) ==
    IF hold_cs > 0 THEN "factory_reset" ELSE "none"

\* check_config_reset: ButtonManager.setup() calls get_button_config(), which
\* ConfigManager does not define; the AttributeError is caught and the
\* result is None.
CheckConfigReset(hold_cs) ==
    IF ButtonConfigAvailable
    THEN ClassifyHold(hold_cs, ShortHoldS, LongHoldS)
    ELSE "none"

\* WiFiConfigServer defines no start_config_server_sta: the call raises
\* AttributeError.
StaPortalAvailable == FALSE

\* ------------------------------------------------------------------ main()

\* A main() that leaves a disabled PIR section as it found it.
AutoEnablePir_Keep(enabled, use_deep) ==
    [enabled |-> enabled, use_deep_sleep |-> use_deep]

\* main(): "if not pir_cfg.get('enabled', False)" the section is written
\* again with enabled True and use_deep_sleep False (pin, min_wake_interval
\* and motion_timeout as read); an enabled section is left alone.
AutoEnablePir(enabled, use_deep) ==
    IF ~enabled THEN [enabled |-> TRUE, use_deep_sleep |-> FALSE]
    ELSE [enabled |-> enabled, use_deep_sleep |-> use_deep]

\* A halt check that never stops the boot.
HaltCheck_Ignored(flag, list_ok) == FALSE

\* main(): "if 'halt.flag' in os.listdir(): ... return", inside a try whose
\* except only logs: a listing that raises leaves the boot going on.
HaltCheck(flag, list_ok) == list_ok /\ flag

\* main() from the entry point to its first blocking call or gatekeeper.
\* flag: a halt.flag file is there; list_ok: os.listdir() returns.
Boot ==
    /\ pc = "entry"
    /\ \E flag \in BOOLEAN : \E list_ok \in (IF flag THEN BOOLEAN ELSE {TRUE}) :
         /\ boot_halt' = IF ~flag THEN "absent"
                         ELSE IF list_ok THEN "found" ELSE "unlisted"
         /\ IF HaltCheck(flag, list_ok)
            THEN /\ pc' = "repl"
                 /\ UNCHANGED <<cfgvars, pir_found, button_hold>>
            ELSE /\ button_hold' = 0
                 /\ IF CheckConfigReset(button_hold) = "factory_reset"
                    THEN /\ pc' = "ap_portal"
                         /\ configured' = FALSE
                         /\ pir_enabled' = FALSE
                         /\ use_deep_sleep' = TRUE
                         /\ min_wake_interval' = DefaultMinWakeInterval
                         /\ UNCHANGED <<sleep_interval, sensor_interval,
                                        runtime_enabled, pir_found>>
                    ELSE IF CheckConfigReset(button_hold) = "config_sta"
                            /\ ~StaPortalAvailable
                    THEN /\ pc' = "repl"
                         /\ UNCHANGED <<cfgvars, pir_found>>
                    ELSE IF configured
                    THEN LET pir_cfg == AutoEnablePir(pir_enabled, use_deep_sleep)
                         IN  /\ pir_found' = IF pir_enabled THEN "enabled"
                                             ELSE "disabled"
                             /\ pir_enabled' = pir_cfg.enabled
                             /\ use_deep_sleep' = pir_cfg.use_deep_sleep
                             /\ pc' = IF pir_cfg.enabled /\ pir_cfg.use_deep_sleep
                                      THEN "gate_main" ELSE "wifi"
                             /\ UNCHANGED <<configured, min_wake_interval,
                                            sleep_interval, sensor_interval,
                                            runtime_enabled>>
                    ELSE /\ pc' = "ap_portal"
                         /\ UNCHANGED <<cfgvars, pir_found>>
    /\ UNCHANGED <<wake_reason, clock, rtc_mem, ramvars, sleepvars, gatevars,
                   motion_sent, publish_failed, net_attempted, portal_opened,
                   last_cmd, last_accept, iter_fault, unitvars>>

\* A go_to_deep_sleep that returns to its caller when the arming fails.
GoToDeepSleep_NeedsArm(site, secs, arm_ok) ==
    /\ pc' = IF arm_ok THEN "deep_sleep" ELSE "loop"
    /\ sleep_secs' = secs
    /\ pir_armed' = arm_ok
    /\ arm_tried' = TRUE
    /\ sleep_site' = site

\* go_to_deep_sleep(sleep_seconds): arm the PIR wake (the result of
\* setup_pir_interrupt is not looked at), then deepsleep with the timer, or
\* without one when sleep_seconds is 0.
GoToDeepSleep(site, secs, arm_ok) ==
    /\ pc' = "deep_sleep"
    /\ sleep_secs' = secs
    /\ pir_armed' = arm_ok
    /\ arm_tried' = TRUE
    /\ sleep_site' = site

\* check_pir_wake -> PIRWakeup.handle_motion_wake at one call site: the
\* decision, the save on Accept, the deep sleep on Suppress. go_on is what
\* the caller does when the call returns True; asleep is what the caller
\* leaves behind when the call suspends.
CheckPirWake(site, read_ok, write_ok, arm_ok, go_on, asleep) ==
    LET last == GetLastMotionTime(rtc_mem, read_ok)
        d == HandleMotionWake(wake_reason, clock, last, min_wake_interval)
    IN  /\ decision' = d
        /\ gate_in' = [now |-> clock, last |-> last, read_ok |-> read_ok,
                       prev |-> last_accept, len |-> Len(rtc_mem)]
        /\ gates_done' = gates_done + 1
        /\ IF d.kind = "Accept"
           THEN /\ rtc_mem' = SaveMotionTime(rtc_mem, clock, write_ok)
                /\ last_accept' = IF write_ok THEN clock ELSE NoTime
                /\ pin_accepted' = TRUE
                /\ go_on
           ELSE IF d.kind = "Suppress"
           THEN /\ GoToDeepSleep(site, d.secs, arm_ok)
                /\ UNCHANGED <<rtc_mem, last_accept, pin_accepted>>
                /\ asleep
           ELSE /\ UNCHANGED <<rtc_mem, last_accept, pin_accepted>>
                /\ go_on

\* main(): the gatekeeper call before main_cycle (deep-sleep PIR mode only).
GateMain ==
    /\ pc = "gate_main"
    /\ \E read_ok \in BOOLEAN, write_ok \in BOOLEAN, arm_ok \in BOOLEAN :
         CheckPirWake("gate_main", read_ok, write_ok, arm_ok,
                      /\ pc' = "wifi"
                      /\ UNCHANGED sleepvars,
                      TRUE)
    /\ boot_halt' = "none"
    /\ UNCHANGED <<wake_reason, clock, cfgvars, ramvars, motion_sent,
                   publish_failed, net_attempted, portal_opened, last_cmd,
                   button_hold, pir_found, iter_fault,
                   unitvars>>

\* ------------------------------------------------------------ main_cycle()

\* main_cycle() from its start through connect_wifi and the initial NTP
\* synchronisation. A failed association (10 polls of one second) opens the
\* AP portal; a successful one took at least one poll. The NTP answer sets
\* the RTC to a present-day reading (never the RTC's second 0).
ConnectWifi ==
    /\ pc = "wifi"
    /\ net_attempted' = TRUE
    /\ boot_halt' = "none"
    /\ \E ok \in BOOLEAN :
         IF ok
         THEN \E d \in 1..MaxWifiDelay, skew \in NtpSkews :
                /\ clock + d + skew >= 1
                /\ clock + d + skew <= MaxClock
                /\ clock' = clock + d + skew
                /\ wifi_connected' = TRUE
                /\ pc' = "mqtt"
                \* indicator.blink(2, 0.1) leaves the LED on
                /\ led_on' = IndOn(led_on)
         ELSE /\ clock + WifiTimeout <= MaxClock
              /\ clock' = clock + WifiTimeout
              /\ pc' = "ap_portal"
              /\ UNCHANGED <<wifi_connected, led_on>>
    /\ UNCHANGED <<wake_reason, rtc_mem, cfgvars, mqtt_session, mqtt_connected,
                   attempt, CONFIG_MODE_REQUEST, CONFIG_MODE_DURATION,
                   last_sensor_time, sleepvars, gatevars, motion_sent,
                   publish_failed, portal_opened, last_cmd, last_accept,
                   button_hold, pir_found, iter_fault,
                   unitvars>>

\* One pass of the "for attempt in range(mqtt_retries)" loop: connect_mqtt,
\* and on success the blink, the discovery and the initial status.
MqttAttempt ==
    /\ pc = "mqtt"
    /\ \E ok \in BOOLEAN, discovery \in BOOLEAN, status_ok \in BOOLEAN :
         IF ok
         THEN LET d == (IF runtime_enabled THEN BlinkDelay ELSE 0)
                       + (IF discovery THEN DiscoveryDelay ELSE 0)
              IN  /\ clock + d <= MaxClock
                  /\ clock' = clock + d
                  /\ mqtt_connected' = TRUE
                  /\ mqtt_session' = status_ok
                  /\ publish_failed' = (publish_failed \/ ~status_ok)
                  /\ pc' = "monitor"
                  /\ UNCHANGED attempt
         ELSE IF attempt + 1 < MqttRetries
         THEN /\ clock + MqttRetryDelay <= MaxClock
              /\ clock' = clock + MqttRetryDelay
              /\ attempt' = attempt + 1
              /\ UNCHANGED <<pc, mqtt_connected, mqtt_session, publish_failed>>
         ELSE /\ attempt' = attempt + 1
              /\ pc' = "monitor"
              /\ UNCHANGED <<clock, mqtt_connected, mqtt_session, publish_failed>>
    /\ UNCHANGED <<wake_reason, rtc_mem, cfgvars, led_on, wifi_connected,
                   CONFIG_MODE_REQUEST, CONFIG_MODE_DURATION, last_sensor_time,
                   sleepvars, gatevars, motion_sent, net_attempted,
                   portal_opened, last_cmd, last_accept, button_hold,
                   pir_found, boot_halt, iter_fault, unitvars>>

\* mqtt.publish_data: False without a session; a failing publish drops the
\* session.
PublishOk(session, pub_ok) == session /\ pub_ok

\* main_cycle() lines 169-200: indicator.on(), the second check_pir_wake
\* (deep-sleep PIR mode only) and the motion notification, published
\* whenever that call returns True and MQTT is connected.
EnterMonitoring ==
    /\ pc = "monitor"
    /\ last_sensor_time' = clock
    /\ attempt' = 0
    /\ IF pir_enabled /\ use_deep_sleep
       THEN \E read_ok \in BOOLEAN, write_ok \in BOOLEAN, arm_ok \in BOOLEAN,
               pub_ok \in BOOLEAN :
              CheckPirWake("monitor", read_ok, write_ok, arm_ok,
                  /\ pc' = "loop"
                  /\ IF mqtt_connected
                     THEN /\ motion_sent' = (motion_sent \/ PublishOk(mqtt_session, pub_ok))
                          /\ mqtt_session' = PublishOk(mqtt_session, pub_ok)
                          /\ publish_failed' = (publish_failed \/ ~PublishOk(mqtt_session, pub_ok))
                     ELSE UNCHANGED <<motion_sent, mqtt_session, publish_failed>>
                  /\ UNCHANGED sleepvars,
                  UNCHANGED <<motion_sent, mqtt_session, publish_failed>>)
            /\ led_on' = IndOn(led_on)
       ELSE /\ pc' = "loop"
            /\ led_on' = IndOn(led_on)
            /\ UNCHANGED <<rtc_mem, mqtt_session, sleepvars, gatevars, motion_sent,
                           publish_failed, last_accept>>
    /\ UNCHANGED <<wake_reason, clock, cfgvars, wifi_connected, mqtt_connected,
                   CONFIG_MODE_REQUEST, CONFIG_MODE_DURATION,
                   net_attempted, portal_opened, last_cmd, button_hold,
                   pir_found, boot_halt, iter_fault, unitvars>>

\* _request_config_mode(duration_s): sets the request flag and the duration
\* int(duration_s or 600).
RequestConfigMode(duration_s) ==
    [request |-> TRUE,
     duration |-> IF duration_s = 0 THEN DefaultConfigDuration ELSE duration_s]

\* A sleep choice that arms the PIR wake only in deep-sleep mode.
ChooseSleep_ArmDeepOnly(use_deep, pir) ==
    [mode |-> IF use_deep THEN "deep_sleep" ELSE "light_sleep",
     arm |-> pir /\ use_deep]

\* "Choose sleep mode based on configuration": deep or light sleep from
\* use_deep_sleep, and the PIR wake source armed when PIR is enabled.
ChooseSleep(use_deep, pir) ==
    [mode |-> IF use_deep THEN "deep_sleep" ELSE "light_sleep", arm |-> pir]

\* Where a pass of the loop can raise: in check_messages (the handler of a
\* socket error), in get_pir_config at the sleep decision, and in the
\* deep-sleep call (enable_pir_sleep or deepsleep).
IterFaults == {"none", "messages", "pir_config", "suspend"}

\* Seconds the except clause of the loop waits before the next pass.
ErrorDelay == 5

\* A main_cycle that an exception in the loop body ends.
IterationError_Fatal(fault) == [pc |-> "repl", delay |-> ErrorDelay]

\* "except Exception as e": the error is logged, time.sleep(5), and the
\* while loop goes on.
IterationError(fault) == [pc |-> "loop", delay |-> ErrorDelay]

\* A loop that hands every reading to publish_data, connected or not.
PublishAttempted_Always(connected) == TRUE

\* "if mqtt_connected:" before mqtt.publish_data(sensor_data): the reading
\* is handed to the client only while the loop's flag is set.
PublishAttempted(connected) == connected

\* The due branch of a pass of the loop: the publish of the reading with the
\* reconnect after a failed one (main.py 255-270), then the sleep decision
\* (main.py 273-319). session1 is the client's session after check_messages.
LoopReading(fault, session1) ==
    LET attempted == PublishAttempted(mqtt_connected)
    IN
    \E pub_ok \in (IF attempted /\ session1 THEN BOOLEAN ELSE {FALSE}) :
      LET published == attempted /\ PublishOk(session1, pub_ok)
      IN  \E reconn_ok \in (IF attempted /\ ~published THEN BOOLEAN
                            ELSE {FALSE}) :
            LET \* a publish that returns False is followed by connect_mqtt
                connected2 == IF attempted /\ ~published THEN reconn_ok
                              ELSE mqtt_connected
                session2 == IF attempted /\ ~published THEN reconn_ok
                            ELSE session1
                caught == IterationError(fault)
                plan == ChooseSleep(use_deep_sleep, pir_enabled)
            IN  /\ last_sensor_time' = clock
                /\ mqtt_connected' = connected2
                /\ IF fault = "pir_config"
                   THEN \* raised after the publish, before any sleep set-up
                        /\ clock + caught.delay <= MaxClock
                        /\ clock' = clock + caught.delay
                        /\ pc' = caught.pc
                        /\ mqtt_session' = session2
                        /\ led_on' = IndOn(led_on)
                        /\ UNCHANGED sleepvars
                   ELSE IF fault = "suspend"
                   THEN \* raised after mqtt.disconnect() and indicator.off()
                        /\ plan.mode = "deep_sleep"
                        /\ clock + caught.delay <= MaxClock
                        /\ clock' = clock + caught.delay
                        /\ pc' = caught.pc
                        /\ mqtt_session' = IF connected2 THEN FALSE ELSE session2
                        /\ led_on' = IndOff(IndOn(led_on))
                        /\ UNCHANGED sleepvars
                   ELSE \* mqtt.disconnect() if mqtt_connected
                        /\ mqtt_session' = IF connected2 THEN FALSE ELSE session2
                        \* indicator.off()
                        /\ led_on' = IndOff(IndOn(led_on))
                        /\ UNCHANGED clock
                        /\ IF plan.mode = "deep_sleep"
                           THEN IF plan.arm
                                THEN \* enable_pir_sleep(sleep_interval)
                                     \E arm_ok \in BOOLEAN :
                                       GoToDeepSleep("loop", sleep_interval, arm_ok)
                                ELSE \* deepsleep(int(sleep_interval * 1000))
                                     /\ pc' = "deep_sleep"
                                     /\ sleep_secs' = sleep_interval
                                     /\ pir_armed' = FALSE
                                     /\ arm_tried' = FALSE
                                     /\ sleep_site' = "loop"
                           ELSE \* _prepare_pir_irq_for_lightsleep, then
                                \* time.sleep(int(sleep_interval))
                                \E arm_ok \in (IF plan.arm THEN BOOLEAN
                                               ELSE {FALSE}) :
                                  /\ pc' = "light_sleep"
                                  /\ sleep_secs' = sleep_interval
                                  /\ pir_armed' = (plan.arm /\ arm_ok)
                                  /\ arm_tried' = plan.arm
                                  /\ sleep_site' = "loop"

\* One pass of the "while True" body of main_cycle(), as far as its
\* suspend call or its end. rx is what check_messages delivers (nothing
\* unless the client is connected), fault where the pass raises; pub_ok,
\* reconn_ok and arm_ok are the outcomes of the publish, the reconnect and
\* the PIR arming where the pass makes them.
LoopIteration ==
    /\ pc = "loop"
    /\ LET listening == mqtt_connected /\ mqtt_session
           due == clock - last_sensor_time >= sensor_interval
           \* "if CONFIG_MODE_REQUEST": the portal call, then
           \* _request_config_mode(0)
           request1 == IF CONFIG_MODE_REQUEST
                       THEN RequestConfigMode(0)
                       ELSE [request |-> CONFIG_MODE_REQUEST,
                             duration |-> CONFIG_MODE_DURATION]
       IN  \E rx \in (IF listening THEN Commands ELSE {"none"}) :
             LET cmd == IF listening THEN rx ELSE "none"
                 \* check_messages: a socket error drops the session; the
                 \* callback knows "status", "restart" and "clear_logs" only,
                 \* and no on-command handler is installed (set_on_command is
                 \* undefined)
                 session1 == IF cmd = "error" THEN FALSE ELSE mqtt_session
             IN  IF cmd = "restart"
                 THEN \E mem \in {rtc_mem, <<>>} :
                        /\ FreshBoot("OTHER", clock, mem)
                        /\ last_accept' = IF mem = rtc_mem THEN last_accept
                                          ELSE NoTime
                 ELSE \E fault \in IterFaults :
                   LET caught == IterationError(fault)
                   IN  IF fault = "messages"
                       THEN \* raised in the OSError handler of check_messages,
                            \* before "self.connected = False" and before the
                            \* config-mode block
                            /\ cmd = "error"
                            /\ clock + caught.delay <= MaxClock
                            /\ clock' = clock + caught.delay
                            /\ pc' = caught.pc
                            /\ iter_fault' = fault
                            /\ last_cmd' = cmd
                            /\ led_on' = IndOn(led_on)
                            /\ UNCHANGED <<wake_reason, rtc_mem, last_accept,
                                           wifi_connected, attempt, gatevars,
                                           motion_sent, publish_failed,
                                           net_attempted, button_hold, pir_found,
                                           boot_halt,
                                           unitvars,
                                           CONFIG_MODE_REQUEST,
                                           CONFIG_MODE_DURATION, portal_opened,
                                           mqtt_connected, mqtt_session,
                                           last_sensor_time, sleepvars>>
                       ELSE /\ last_cmd' = cmd
                            /\ iter_fault' = fault
                            /\ CONFIG_MODE_REQUEST' = request1.request
                            /\ CONFIG_MODE_DURATION' = request1.duration
                            /\ portal_opened' =
                                  IF CONFIG_MODE_REQUEST /\ StaPortalAvailable
                                  THEN CONFIG_MODE_DURATION ELSE portal_opened
                            /\ UNCHANGED <<wake_reason, rtc_mem, last_accept,
                                           wifi_connected, attempt, gatevars,
                                           motion_sent, publish_failed,
                                           net_attempted, button_hold, pir_found,
                                           boot_halt,
                                           unitvars>>
                            /\ IF ~due
                               THEN \* time.sleep(1)
                                    /\ fault = "none"
                                    /\ clock + IdleDelay <= MaxClock
                                    /\ clock' = clock + IdleDelay
                                    /\ pc' = "loop"
                                    /\ led_on' = IndOn(led_on)
                                    /\ mqtt_session' = session1
                                    /\ UNCHANGED <<mqtt_connected,
                                                   last_sensor_time, sleepvars>>
                               ELSE LoopReading(fault, session1)
    /\ UNCHANGED cfgvars

\* A resume that leaves the indicator off.
LightResume_NoIndicator ==
    /\ pc = "light_sleep"
    /\ clock + sleep_secs <= MaxClock
    /\ clock' = clock + sleep_secs
    /\ pc' = "loop"
    /\ sleep_site' = "none"
    /\ UNCHANGED <<wake_reason, rtc_mem, cfgvars, ramvars, sleep_secs, pir_armed,
                   arm_tried, gatevars, motion_sent, publish_failed,
                   net_attempted, portal_opened, last_cmd, last_accept,
                   button_hold, pir_found, boot_halt, iter_fault,
                   unitvars>>

\* The end of the "light sleep" (time.sleep(int(sleep_interval))) and the
\* indicator.on() that follows it; the loop goes on.
LightResume ==
    /\ pc = "light_sleep"
    /\ clock + sleep_secs <= MaxClock
    /\ clock' = clock + sleep_secs
    /\ led_on' = IndOn(led_on)
    /\ pc' = "loop"
    /\ sleep_site' = "none"
    /\ UNCHANGED <<wake_reason, rtc_mem, cfgvars, wifi_connected, mqtt_session,
                   mqtt_connected, attempt, CONFIG_MODE_REQUEST,
                   CONFIG_MODE_DURATION, last_sensor_time, sleep_secs, pir_armed,
                   arm_tried, gatevars, motion_sent, publish_failed,
                   net_attempted, portal_opened, last_cmd, last_accept,
                   button_hold, pir_found, boot_halt, iter_fault,
                   unitvars>>

\* ------------------------------------------------------------ environment

\* The deep-sleep timer expires: the platform restarts the program.
TimerWake ==
    /\ pc = "deep_sleep"
    /\ sleep_secs > 0
    /\ clock + sleep_secs <= MaxClock
    /\ \E r \in GetWakeReason("TIMER_WAKE") :
         FreshBoot(r, clock + sleep_secs, rtc_mem)
    /\ UNCHANGED <<cfgvars, last_accept>>

\* The PIR output goes high while the device is in deep sleep with the pin
\* wake armed, at any moment up to the timer's expiry.
PirWake ==
    /\ pc = "deep_sleep"
    /\ pir_armed
    /\ \E t \in clock..MaxClock, r \in GetWakeReason("PIN_WAKE") :
         /\ sleep_secs > 0 => t <= clock + sleep_secs
         /\ FreshBoot(r, t, rtc_mem)
    /\ UNCHANGED <<cfgvars, last_accept>>

\* The AP portal (start_config_server) blocks until a configuration is
\* posted: _handle_config_post saves it and calls machine.reset().
ApPortalPost ==
    /\ pc = "ap_portal"
    /\ clock + PortalRebootDelay <= MaxClock
    /\ \E complete \in BOOLEAN, si \in SleepIntervals, se \in SensorIntervals,
          mem \in {rtc_mem, <<>>} :
         /\ configured' = (configured \/ complete)
         /\ sleep_interval' = si
         /\ sensor_interval' = se
         /\ FreshBoot("OTHER", clock + PortalRebootDelay, mem)
         /\ last_accept' = IF mem = rtc_mem THEN last_accept ELSE NoTime
    /\ UNCHANGED <<pir_enabled, use_deep_sleep, min_wake_interval, runtime_enabled>>

\* Reset button or loss of power, at any point: a reset keeps the RTC clock
\* and may keep the retained memory; a power loss clears both.
Reset ==
    /\ pc # "entry"
    /\ \E power \in BOOLEAN :
         IF power
         THEN /\ FreshBoot("OTHER", 0, <<>>)
              /\ last_accept' = NoTime
         ELSE \E mem \in {rtc_mem, <<>>} :
                /\ FreshBoot("OTHER", clock, mem)
                /\ last_accept' = IF mem = rtc_mem THEN last_accept ELSE NoTime
    /\ UNCHANGED cfgvars

\* ------------------------------------------------------------ specification

InitRam ==
    /\ led_on = FALSE
    /\ wifi_connected = FALSE
    /\ mqtt_session = FALSE
    /\ mqtt_connected = FALSE
    /\ attempt = 0
    /\ CONFIG_MODE_DURATION = DefaultConfigDuration
    /\ last_sensor_time = 0
    /\ sleep_secs = 0
    /\ pir_armed = FALSE
    /\ sleep_site = "none"
    /\ arm_tried = FALSE
    /\ decision = NoDecision
    /\ gate_in = NoGateIn
    /\ gates_done = 0
    /\ pin_accepted = FALSE
    /\ motion_sent = FALSE
    /\ publish_failed = FALSE
    /\ net_attempted = FALSE
    /\ portal_opened = 0
    /\ last_cmd = "none"
    /\ last_accept = NoTime
    /\ pir_found = "none"
    /\ boot_halt = "none"
    /\ iter_fault = "none"

\* The button classifier and the wake state store are not running.
InitUnits ==
    /\ btn = BtnIdle
    /\ store = StoreIdle
    /\ ind = IndIdle
    /\ cfgm = CfgIdle
    /\ logf = LogIdle

InitConfig ==
    /\ pir_enabled \in BOOLEAN
    /\ use_deep_sleep \in BOOLEAN
    /\ min_wake_interval \in MinWakeIntervals
    /\ sleep_interval \in SleepIntervals
    /\ sensor_interval \in SensorIntervals
    /\ runtime_enabled \in BOOLEAN

\* Power-on: the program entry point with the RTC at 0, nothing retained
\* and whatever configuration file the device holds.
Init ==
    /\ pc = "entry"
    /\ wake_reason = "OTHER"
    /\ clock = 0
    /\ rtc_mem = <<>>
    /\ configured \in BOOLEAN
    /\ CONFIG_MODE_REQUEST = FALSE
    /\ button_hold \in BootHolds
    /\ InitConfig
    /\ InitRam
    /\ InitUnits

Next ==
    \/ Boot
    \/ GateMain
    \/ ConnectWifi
    \/ MqttAttempt
    \/ EnterMonitoring
    \/ LoopIteration
    \/ LightResume
    \/ TimerWake
    \/ PirWake
    \/ ApPortalPost
    \/ Reset

Spec == Init /\ [][Next]_vars

\* main_cycle(config_manager, indicator) on its own, from its first line to
\* the suspend call, portal or restart that ends it: any stored
\* configuration, and the module's request flag as its caller left it.
InitCycle ==
    /\ pc = "wifi"
    /\ wake_reason = "OTHER"
    /\ clock = 0
    /\ rtc_mem = <<>>
    /\ configured = TRUE
    /\ CONFIG_MODE_REQUEST \in BOOLEAN
    /\ button_hold = 0
    /\ InitConfig
    /\ InitRam
    /\ InitUnits

NextCycle ==
    \/ ConnectWifi
    \/ MqttAttempt
    \/ EnterMonitoring
    \/ LoopIteration
    \/ LightResume

SpecCycle == InitCycle /\ [][NextCycle]_vars


\* ------------------------------------------------- components on their own

\* Everything but the retained memory and the two components.
restvars == <<pc, wake_reason, clock, cfgvars, ramvars, sleepvars, gatevars,
              motion_sent, publish_failed, net_attempted, portal_opened,
              last_cmd, last_accept, pir_found, boot_halt, iter_fault,
              button_hold>>

\* The device at rest around a component run on its own.
InitRest ==
    /\ pc = "entry"
    /\ wake_reason = "OTHER"
    /\ clock = 0
    /\ configured = TRUE
    /\ pir_enabled = FALSE
    /\ use_deep_sleep = TRUE
    /\ min_wake_interval = DefaultMinWakeInterval
    /\ sleep_interval = 2
    /\ sensor_interval = 1
    /\ runtime_enabled = TRUE
    /\ CONFIG_MODE_REQUEST = FALSE
    /\ button_hold = 0
    /\ InitRam

\* check_hold_on_boot, lines 68-77: the first sample; not pressed (or a
\* failing log call) returns None at once, pressed goes on to the debounce
\* delay and hold = 0.0.
BtnFirstRead ==
    /\ btn.pc = "first"
    /\ \E sample \in PinSamples, log_ok \in BOOLEAN :
         LET p == Pressed(sample, btn.active_low)
             b1 == [btn EXCEPT !.reads = 1,
                               !.fails = IF sample = ReadFails THEN 1 ELSE 0,
                               !.first = p, !.last = p]
         IN  btn' = IF p /\ log_ok
                    THEN [b1 EXCEPT !.pc = "poll", !.slept_ms = DebounceMs]
                    ELSE [b1 EXCEPT !.pc = "done", !.result = "none"]
    /\ UNCHANGED <<restvars, rtc_mem, store, ind, cfgm, logf>>

\* check_hold_on_boot, lines 78-90: one test of the while loop, with its
\* read of the pin; then either one more poll of 0.1 s or the classification.
BtnPoll ==
    /\ btn.pc = "poll"
    /\ \E sample \in PinSamples, err \in FloatErrs :
         LET p == Pressed(sample, btn.active_low)
             h == HoldValue(btn.polls, btn.err)
             b1 == [btn EXCEPT !.reads = @ + 1,
                               !.fails = IF sample = ReadFails THEN @ + 1 ELSE @,
                               !.last = p]
         IN  btn' = IF KeepPolling(p, h, btn.max_wait_s)
                    THEN [b1 EXCEPT !.polls = @ + 1, !.err = err,
                                    !.slept_ms = @ + 10 * PollCs]
                    ELSE [b1 EXCEPT !.pc = "done",
                                    !.result = ClassifyHold(h, btn.short_s, btn.long_s)]
    /\ UNCHANGED <<restvars, rtc_mem, store, ind, cfgm, logf>>

\* A set-up ButtonManager about to run check_hold_on_boot(max_wait_s).
InitButton ==
    /\ InitRest
    /\ rtc_mem = <<>>
    /\ store = StoreIdle
    /\ ind = IndIdle
    /\ cfgm = CfgIdle
    /\ logf = LogIdle
    /\ \E al \in BOOLEAN, hc \in HoldConfigs, mw \in MaxWaits :
         btn = [BtnIdle EXCEPT !.pc = "first", !.active_low = al,
                               !.short_s = hc[1], !.long_s = hc[2],
                               !.max_wait_s = mw]

NextButton ==
    \/ BtnFirstRead
    \/ BtnPoll

SpecButton == InitButton /\ [][NextButton]_vars

\* save_motion_time(value) on the store.
StoreSave ==
    /\ store.pc = "fresh"
    /\ \E write_ok \in BOOLEAN :
         /\ rtc_mem' = SaveMotionTimeQ(rtc_mem, store.value, write_ok)
         /\ store' = [store EXCEPT !.pc = "saved", !.wrote = write_ok]
    /\ UNCHANGED <<restvars, btn, ind, cfgm, logf>>

\* get_last_motion_time() on the store.
StoreRead ==
    /\ store.pc = "saved"
    /\ \E read_ok \in BOOLEAN :
         store' = [store EXCEPT !.pc = "read", !.read_ok = read_ok,
                                !.back = GetLastMotionTimeQ(rtc_mem, read_ok)]
    /\ UNCHANGED <<restvars, rtc_mem, btn, ind, cfgm, logf>>

\* The store about to save a value, over nothing retained or over an older
\* block.
InitStore ==
    /\ InitRest
    /\ btn = BtnIdle
    /\ ind = IndIdle
    /\ cfgm = CfgIdle
    /\ logf = LogIdle
    /\ rtc_mem \in {<<>>, SaveMotionTimeQ(<<>>, <<513, 1027, 1541, 2055>>, TRUE)}
    /\ \E v \in U64Samples : store = [StoreIdle EXCEPT !.pc = "fresh", !.value = v]

NextStore ==
    \/ StoreSave
    \/ StoreRead

SpecStore == InitStore /\ [][NextStore]_vars

\* The history fields of a call op made in state s, giving state t.
IndCalled(s, t, op, ok) ==
    [t EXCEPT !.op = op, !.wr_ok = ok, !.prev_int = s.int_pin,
              !.prev_ext = s.ext_pin,
              !.offs = IF op = "off" THEN (IF s.offs < 2 THEN s.offs + 1 ELSE 2)
                       ELSE 0,
              !.off1_int = IF op = "off" /\ s.offs = 0 THEN t.int_pin ELSE @,
              !.off1_ext = IF op = "off" /\ s.offs = 0 THEN t.ext_pin ELSE @,
              !.off1_ok = IF op = "off" /\ s.offs = 0 THEN ok ELSE @]

IndicatorOn ==
    /\ ind.pc = "ready"
    /\ \E wi \in BOOLEAN, we \in BOOLEAN :
         ind' = IndCalled(ind, LedOn(ind, wi, we), "on", wi /\ we)
    /\ UNCHANGED <<restvars, rtc_mem, btn, store, cfgm, logf>>

IndicatorOff ==
    /\ ind.pc = "ready"
    /\ \E wi \in BOOLEAN, we \in BOOLEAN :
         ind' = IndCalled(ind, LedOff(ind, wi, we), "off", wi /\ we)
    /\ UNCHANGED <<restvars, rtc_mem, btn, store, cfgm, logf>>

IndicatorBlink ==
    /\ ind.pc = "ready"
    /\ \E times \in BlinkTimes, final_on \in BOOLEAN,
          wi \in BOOLEAN, we \in BOOLEAN :
         ind' = IndCalled(ind,
                          [LedBlink(ind, times, final_on, wi, we)
                             EXCEPT !.times = times, !.final_on = final_on],
                          "blink", wi /\ we)
    /\ UNCHANGED <<restvars, rtc_mem, btn, store, cfgm, logf>>

\* ap_blink_start(): the external LED when enabled, else the status LED
\* (inverted); the LED is driven dark and a periodic timer started. A Pin
\* that cannot be set up ends the call with no LED and no timer started; a
\* timer that cannot be started leaves none.
ApBlinkStart ==
    /\ ind.pc = "ready"
    /\ \E pin_ok \in BOOLEAN, timer_ok \in BOOLEAN, w \in BOOLEAN :
         LET s1 == [ind EXCEPT !.ap_inverted = ~ind.external_led_enabled]
             s2 == [s1 EXCEPT !.ap_led = IF ind.external_led_enabled
                                         THEN "ext" ELSE "int"]
         IN  ind' = IF ~pin_ok
                    THEN IndCalled(ind, [s1 EXCEPT !.ap_led = "none"],
                                   "ap_start_failed", FALSE)
                    ELSE IndCalled(ind,
                                   [ApVis(s2, FALSE, w) EXCEPT !.ap_timer = timer_ok],
                                   IF timer_ok THEN "ap_start" ELSE "ap_start_failed",
                                   w)
    /\ UNCHANGED <<restvars, rtc_mem, btn, store, cfgm, logf>>

\* The timer callback _cb: flip _ap_state and show it.
ApBlinkTick ==
    /\ ind.pc = "ready"
    /\ ind.ap_timer
    /\ \E w \in BOOLEAN :
         ind' = IndCalled(ind,
                          ApVis([ind EXCEPT !.ap_state = ~ind.ap_state],
                                ~ind.ap_state, w),
                          "ap_tick", w)
    /\ UNCHANGED <<restvars, rtc_mem, btn, store, cfgm, logf>>

\* ap_blink_stop(): the timer stopped and the AP LED driven dark.
ApBlinkStop ==
    /\ ind.pc = "ready"
    /\ \E w \in BOOLEAN :
         ind' = IndCalled(ind,
                          ApVis([ind EXCEPT !.ap_timer = FALSE], FALSE, w),
                          "ap_stop", w)
    /\ UNCHANGED <<restvars, rtc_mem, btn, store, cfgm, logf>>

\* An IndicationManager after setup(), for every stored gpio section.
InitIndication ==
    /\ InitRest
    /\ rtc_mem = <<>>
    /\ btn = BtnIdle
    /\ store = StoreIdle
    /\ cfgm = CfgIdle
    /\ logf = LogIdle
    /\ \E enabled \in BOOLEAN, active_low \in BOOLEAN, int_ok \in BOOLEAN,
          ext_ok \in BOOLEAN, int_level \in {0, 1} :
         ind = IndSetup(enabled, active_low, int_ok, ext_ok, int_level)

NextIndication ==
    \/ IndicatorOn
    \/ IndicatorOff
    \/ IndicatorBlink
    \/ ApBlinkStart
    \/ ApBlinkTick
    \/ ApBlinkStop

SpecIndication == InitIndication /\ [][NextIndication]_vars

\* ConfigManager.__init__: self.config = self._load_config()
CfgLoad ==
    /\ cfgm.pc = "file"
    /\ cfgm' = [cfgm EXCEPT !.pc = "loaded",
                            !.config = LoadConfig(cfgm.file, cfgm.config)]
    /\ UNCHANGED <<restvars, rtc_mem, btn, store, ind, logf>>

\* get_advanced_config()['sleep_interval']
CfgGetAdvanced ==
    /\ cfgm.pc = "loaded"
    /\ cfgm' = [cfgm EXCEPT
                  !.op = "get_advanced_config", !.raised = FALSE,
                  !.ret_keys = {"sleep_interval"},
                  !.sleep_interval =
                      IF "sleep_interval" \in cfgm.config.top
                      THEN StoredSleepInterval ELSE DefaultSleepInterval]
    /\ UNCHANGED <<restvars, rtc_mem, btn, store, ind, logf>>

CfgGetGpio ==
    /\ cfgm.pc = "loaded"
    /\ LET g == GetGpioConfig(cfgm.config)
       IN  cfgm' = [cfgm EXCEPT
                      !.op = "get_gpio_config", !.raised = FALSE,
                      !.ret_keys = g.keys,
                      !.pir_pin = Get(g, "pir_pin", 0)]
    /\ UNCHANGED <<restvars, rtc_mem, btn, store, ind, logf>>

CfgGetPir ==
    /\ cfgm.pc = "loaded"
    /\ LET r == GetPirConfig(cfgm.config)
       IN  cfgm' = [cfgm EXCEPT
                      !.op = "get_pir_config", !.raised = r.raised,
                      !.config = r.config,
                      !.ret_keys = r.ret.keys,
                      !.pir_pin = Get(r.ret, "pir_pin", 0),
                      !.min_wake_interval = Get(r.ret, "min_wake_interval", 0),
                      !.use_deep_sleep = Get(r.ret, "use_deep_sleep", FALSE)]
    /\ UNCHANGED <<restvars, rtc_mem, btn, store, ind, logf>>

\* PIRWakeup(config_manager=...): the constructor check_pir_wake and
\* enable_pir_sleep run.
CfgPirWakeup ==
    /\ cfgm.pc = "loaded"
    /\ LET r == PirWakeupInit(cfgm.config)
       IN  cfgm' = [cfgm EXCEPT
                      !.op = "PIRWakeup", !.raised = r.raised,
                      !.config = r.config,
                      !.ret_keys = {},
                      !.pir_pin = r.pir_pin,
                      !.min_wake_interval = r.min_wake_interval]
    /\ UNCHANGED <<restvars, rtc_mem, btn, store, ind, logf>>

\* set_pir_config(...) with any pin and flags; set_pin keeps the pin passed.
CfgSetPir ==
    /\ cfgm.pc = "loaded"
    /\ \E enabled \in BOOLEAN, pin \in SetPins, use_deep \in BOOLEAN :
         cfgm' = [cfgm EXCEPT
                    !.op = "set_pir_config", !.raised = FALSE,
                    !.set_pin = pin,
                    !.config = SetPirConfig(cfgm.config, enabled, pin,
                                            StoredPir.min_wake_interval, use_deep)]
    /\ UNCHANGED <<restvars, rtc_mem, btn, store, ind, logf>>

\* set_gpio_config(...) with any PIR pin.
CfgSetGpio ==
    /\ cfgm.pc = "loaded"
    /\ \E pin \in SetPins :
         cfgm' = [cfgm EXCEPT
                    !.op = "set_gpio_config", !.raised = FALSE,
                    !.config = SetGpioConfig(cfgm.config,
                                             StoredGpio.status_led_pin, pin)]
    /\ UNCHANGED <<restvars, rtc_mem, btn, store, ind, logf>>

\* A device_config.json that is missing, corrupt, or holds any of the
\* blobs, before ConfigManager() is built.
InitConfigManager ==
    /\ InitRest
    /\ rtc_mem = <<>>
    /\ btn = BtnIdle
    /\ store = StoreIdle
    /\ ind = IndIdle
    /\ logf = LogIdle
    /\ \E file \in {"missing", "corrupt", "stored"}, blob \in Blobs :
         cfgm = [CfgIdle EXCEPT !.pc = "file", !.file = file, !.config = blob]

NextConfigManager ==
    \/ CfgLoad
    \/ CfgGetAdvanced
    \/ CfgGetGpio
    \/ CfgGetPir
    \/ CfgPirWakeup
    \/ CfgSetPir
    \/ CfgSetGpio

SpecConfigManager == InitConfigManager /\ [][NextConfigManager]_vars

\* ------------------------------------------------- the Logger on its own

\* _write_log at or above the logger's level: the rotation check, then the
\* append. prev keeps the files as they were before the call, size_before
\* the size of the active file between the rotation check and the append.
LogWrite ==
    /\ logf.pc = "open"
    /\ \E entry \in EntrySizes :
         LET rotated == RotateFiles(logf.files, logf.max_files, logf.max_file_size)
         IN  /\ rotated[0].size + entry <= MaxLogBytes
             /\ logf' = [logf EXCEPT !.op = "write", !.prev = logf.files,
                                     !.entry = entry,
                                     !.size_before = rotated[0].size,
                                     !.files = AppendEntry(rotated, entry)]
    /\ UNCHANGED <<restvars, rtc_mem, btn, store, ind, cfgm>>

\* _write_log below the logger's level: nothing is written.
LogSkip ==
    /\ logf.pc = "open"
    /\ logf' = [logf EXCEPT !.op = "skip", !.prev = logf.files, !.entry = 0,
                            !.size_before = logf.files[0].size]
    /\ UNCHANGED <<restvars, rtc_mem, btn, store, ind, cfgm>>

\* Logger(max_file_size=..., max_files=...) over an empty logs/ directory.
InitLogger ==
    /\ InitRest
    /\ rtc_mem = <<>>
    /\ btn = BtnIdle
    /\ store = StoreIdle
    /\ ind = IndIdle
    /\ cfgm = CfgIdle
    /\ \E n \in MaxFilesSet, limit \in FileSizeLimits :
         logf = [LogIdle EXCEPT !.pc = "open", !.max_files = n,
                                !.max_file_size = limit]

NextLogger ==
    \/ LogWrite
    \/ LogSkip

SpecLogger == InitLogger /\ [][NextLogger]_vars

\* ------------------------------------------------------------------ claims

Asleep == pc \in {"deep_sleep", "light_sleep"}

GateSites == {"gate_main", "monitor"}

\* C1: PIR wakes are rate-limited across deep-sleep restarts. Whenever the
\* gatekeeper handles a pin-level wake while the retained memory still holds
\* the time of the last accepted wake and reads it back, the wake is accepted
\* only if at least min_wake_interval seconds of the clock lie between the
\* two, and a wake that comes earlier puts the device back into deep sleep.
C1_RateLimited ==
    (/\ gates_done > 0
     /\ wake_reason = "PIN_WAKE"
     /\ gate_in.prev # NoTime
     /\ gate_in.read_ok)
    => /\ decision.kind = "Accept"
            => gate_in.now - gate_in.prev >= min_wake_interval
       /\ gate_in.now - gate_in.prev < min_wake_interval
            => decision.kind = "Suppress" /\ pc = "deep_sleep"

\* A pin wake of a later boot that came too early and was sent back to sleep
\* by the gatekeeper call of main().
C1_Witness ==
    /\ pc = "deep_sleep"
    /\ sleep_site = "gate_main"
    /\ wake_reason = "PIN_WAKE"
    /\ gate_in.read_ok
    /\ gate_in.prev > 0
    /\ gate_in.now > gate_in.prev
    /\ gate_in.now - gate_in.prev < min_wake_interval
    /\ decision.kind = "Suppress"

\* The decision of C2 as a function of the wake reason, the clock, the
\* stored time and the interval.
C2_Decide(reason, now, last, min_interval) ==
    IF reason # "PIN_WAKE" THEN [kind |-> "NotApplicable", secs |-> 0]
    ELSE IF last = 0 THEN [kind |-> "Accept", secs |-> 0]
    ELSE IF now - last >= min_interval
         THEN [kind |-> "Accept", secs |-> now - last]
         ELSE [kind |-> "Suppress", secs |-> min_interval - (now - last)]

\* C2: the gatekeeper's decision. A wake reason other than the pin-level wake
\* gives NotApplicable whatever is stored; a pin-level wake with stored time
\* 0 gives Accept with elapsed 0; otherwise elapsed = now - last gives Accept
\* when elapsed >= min_wake_interval and Suppress with remaining =
\* min_wake_interval - elapsed when not (now 1000, last 800, interval 300:
\* Suppress 100; now 1200: Accept 400). The stored time is what the last
\* accepted wake saved; only Suppress suspends, for the remaining seconds.
C2_Decision ==
    /\ HandleMotionWake("PIN_WAKE", 1000, 800, 300) = [kind |-> "Suppress", secs |-> 100]
    /\ HandleMotionWake("PIN_WAKE", 1200, 800, 300) = [kind |-> "Accept", secs |-> 400]
    /\ HandleMotionWake("PIN_WAKE", 1000, 0, 300) = [kind |-> "Accept", secs |-> 0]
    /\ \A r \in WakeReasons \ {"PIN_WAKE"} :
         HandleMotionWake(r, 1000, 800, 300) = [kind |-> "NotApplicable", secs |-> 0]
    /\ gates_done > 0 =>
         /\ gate_in.read_ok /\ gate_in.prev # NoTime => gate_in.last = gate_in.prev
         /\ decision = C2_Decide(wake_reason, gate_in.now, gate_in.last,
                                 min_wake_interval)
         /\ decision.kind = "Suppress"
              => /\ pc = "deep_sleep"
                 /\ sleep_site \in GateSites
                 /\ sleep_secs = decision.secs
         /\ sleep_site \in GateSites => decision.kind = "Suppress"

\* A pin wake two seconds after the last accepted one under an interval of
\* three: suppressed with one second remaining.
C2_Witness ==
    /\ gates_done > 0
    /\ wake_reason = "PIN_WAKE"
    /\ min_wake_interval = 3
    /\ gate_in.last > 0
    /\ gate_in.now - gate_in.last = 2
    /\ decision = [kind |-> "Suppress", secs |-> 1]
    /\ sleep_secs = 1

\* C3: a boot from a pin-level wake that the gatekeeper accepts, in which
\* WiFi and MQTT connect and no publish fails, has published the motion
\* notification when the device suspends.
C3_MotionReported ==
    (/\ Asleep
     /\ pin_accepted
     /\ wifi_connected
     /\ mqtt_connected
     /\ ~publish_failed)
    => motion_sent

\* The retained memory holds time t: 32 bytes, the first 8 the little-endian
\* value, the rest 0.
HoldsTime(mem, t) ==
    /\ Len(mem) = RtcBlockLen
    /\ UnpackLE(SubSeq(mem, 1, TimestampLen)) = t
    /\ \A i \in (TimestampLen + 1)..RtcBlockLen : mem[i] = 0

\* C4 as stated: the program changes the persisted time exactly when a motion
\* wake is accepted, then to the current time; NotApplicable and Suppress
\* leave it unchanged.
C4_TimestampFrame ==
    [][IF gates_done' = gates_done + 1 /\ decision'.kind = "Accept"
       THEN HoldsTime(rtc_mem', clock)
       ELSE pc' # "entry" => rtc_mem' = rtc_mem]_vars

\* C4, amended: the program changes the persisted time only when a motion
\* wake is accepted, then to the current time, unless the write to the
\* retained memory fails, which leaves it unchanged; NotApplicable and
\* Suppress leave it unchanged.
C4_TimestampFrameAmended ==
    [][IF gates_done' = gates_done + 1 /\ decision'.kind = "Accept"
       THEN HoldsTime(rtc_mem', clock) \/ rtc_mem' = rtc_mem
       ELSE pc' # "entry" => rtc_mem' = rtc_mem]_vars

\* An accepted pin wake whose time replaced an older stored time.
C4_Witness ==
    /\ pin_accepted
    /\ decision.kind = "Accept"
    /\ gate_in.read_ok
    /\ gate_in.last > 0
    /\ gate_in.now > gate_in.last
    /\ HoldsTime(rtc_mem, gate_in.now)

C6_CommandSetsRequest ==
    last_cmd = "config_mode" => (CONFIG_MODE_REQUEST \/ portal_opened > 0)

\* C7: with no config request pending, the suspend at the loop's sleep
\* decision is set by (use_deep_sleep, pir_enabled): deep sleep with the PIR
\* wake armed, deep sleep on the timer alone, light sleep with the PIR
\* interrupt armed, or light sleep on the timer alone, each for
\* sleep_interval seconds.
C7_SleepPlan ==
    (Asleep /\ sleep_site = "loop" /\ ~CONFIG_MODE_REQUEST)
    => /\ pc = (IF use_deep_sleep THEN "deep_sleep" ELSE "light_sleep")
       /\ arm_tried = pir_enabled
       /\ ~pir_enabled => ~pir_armed
       /\ sleep_secs = sleep_interval

\* Light sleep with the PIR interrupt armed, no request pending.
C7_Witness ==
    /\ pc = "light_sleep"
    /\ sleep_site = "loop"
    /\ ~CONFIG_MODE_REQUEST
    /\ ~use_deep_sleep
    /\ pir_enabled
    /\ pir_armed
    /\ sleep_interval > 0
    /\ sleep_secs = sleep_interval

\* C8: no deep sleep entered after the transport came up has the MQTT
\* session still connected or the LEDs on, and the time of a wake accepted
\* in the boot is already written.
C8_QuietBeforeDeepSleep ==
    (pc = "deep_sleep" /\ wifi_connected)
    => /\ ~mqtt_session
       /\ ~led_on
       /\ pin_accepted => last_accept # NoTime

\* C9: a failed arming of the PIR wake source does not keep the device
\* awake: it is in the sleep it was going to enter, for the same seconds,
\* only without the motion wake.
C9_ArmFailureStillSleeps ==
    (arm_tried /\ ~pir_armed /\ sleep_site # "none")
    => /\ Asleep
       /\ sleep_site = "loop"
            => /\ pc = (IF use_deep_sleep THEN "deep_sleep" ELSE "light_sleep")
               /\ sleep_secs = sleep_interval
       /\ sleep_site \in GateSites
            => /\ pc = "deep_sleep"
               /\ sleep_secs = decision.secs

\* Deep sleep on the timer of sleep_interval after the arming failed.
C9_Witness ==
    /\ pc = "deep_sleep"
    /\ sleep_site = "loop"
    /\ arm_tried
    /\ ~pir_armed
    /\ sleep_interval > 0
    /\ sleep_secs = sleep_interval

\* C10: a pin wake suppressed in a boot is followed by deep sleep for the
\* remaining seconds with the PIR wake re-armed, and no WiFi or MQTT
\* connection was attempted in that boot.
C10_SuppressedStaysOffline ==
    (pc = "deep_sleep" /\ decision.kind = "Suppress")
    => /\ sleep_secs = decision.secs
       /\ arm_tried
       /\ ~net_attempted

\* C11: elapsed time is a saturating subtraction, so every Suppress outcome
\* has 0 < remaining <= min_wake_interval: a suppressed motion wake never puts
\* the device back to sleep for longer than min_wake_interval.
C11_RemainingBounded ==
    decision.kind = "Suppress"
    => /\ 0 < decision.secs
       /\ decision.secs <= min_wake_interval
       /\ sleep_secs <= min_wake_interval

\* The button was found pressed and its hold measured.
Measured == btn.pc = "done" /\ btn.reads > 1

MeasuredHold == HoldValue(btn.polls, btn.err)

C14_Hold ==
    IF button_hold >= 100 * LongHoldS - 50 THEN "long"
    ELSE IF button_hold >= 100 * ShortHoldS - 50 THEN "short"
    ELSE "none"

\* C14: the hold at boot selects the boot path: a long hold clears the
\* stored configuration and starts the AP portal, a short hold opens the STA
\* portal, no hold goes on to normal operation (the gatekeeper and
\* main_cycle when configured, the AP portal when not). Boots stopped by
\* the halt flag aside.
C14_HoldSelectsBootPath ==
    [][(pc = "entry" /\ pc' \notin {"entry", "repl"}) =>
         IF C14_Hold = "long" THEN pc' = "ap_portal" /\ ~configured'
         ELSE IF C14_Hold = "short" THEN portal_opened' > 0
         ELSE /\ configured' = configured
              /\ pc' = IF ~configured THEN "ap_portal"
                       ELSE IF pir_enabled' /\ use_deep_sleep' THEN "gate_main"
                       ELSE "wifi"]_vars

\* C15: the stored configuration is cleared only by a long hold at boot: no
\* other step (an error path, a failing read, a short hold, a motion wake,
\* an MQTT command) takes the device from configured to not configured.
C15_OnlyLongHoldClears ==
    [][(configured /\ ~configured') =>
         /\ pc = "entry"
         /\ C14_Hold = "long"
         /\ pc' = "ap_portal"]_vars

\* A configured device in a boot that accepted a motion wake, lost a
\* publish or received a command, and armed a wake source in vain.
C15_Witness ==
    /\ configured
    /\ pin_accepted
    /\ last_cmd \in {"config_mode", "error"}
    /\ pc = "loop"

\* C16: a first sample that is not pressed for the configured polarity gives
\* None after exactly one read and no delay; a failing read counts as not
\* pressed, so when every read fails the result is None.
C16_NotPressedIsImmediate ==
    /\ \A al \in BOOLEAN : ~Pressed(ReadFails, al)
    /\ Pressed(0, TRUE) /\ ~Pressed(1, TRUE) /\ Pressed(1, FALSE) /\ ~Pressed(0, FALSE)
    /\ (btn.pc = "done" /\ ~btn.first) =>
         /\ btn.result = "none"
         /\ btn.reads = 1
         /\ btn.slept_ms = 0
         /\ btn.polls = 0
    /\ (btn.pc = "done" /\ btn.fails = btn.reads) => btn.result = "none"
    /\ btn.fails = btn.reads => btn.pc \in {"first", "done"}

\* A first read that failed: None after that one read.
C16_Witness ==
    /\ btn.pc = "done"
    /\ btn.fails = 1
    /\ btn.reads = 1
    /\ btn.slept_ms = 0
    /\ btn.result = "none"

\* C17: the measurement ends: the polling goes on only while every read
\* finds the pin pressed and the accumulated hold is below max_wait_s, so it
\* stops at the first released read or once max_wait_s is reached, after at
\* most 10 * max_wait_s + 1 polls; a hold capped by max_wait_s that is at
\* least long_hold_s - 0.5 (21 s against 20 s) is a LongHold.
C17_MeasurementEnds ==
    /\ btn.polls <= 10 * btn.max_wait_s + 1
    /\ btn.pc = "poll" => btn.last /\ btn.reads = btn.polls + 1
    /\ Measured =>
         /\ btn.reads = btn.polls + 2
         /\ btn.slept_ms = DebounceMs + 100 * btn.polls
         /\ ~btn.last \/ MeasuredHold >= 100 * btn.max_wait_s
         /\ MeasuredHold <= 100 * btn.max_wait_s + PollCs + 1
         /\ (btn.last /\ 100 * btn.max_wait_s >= 100 * btn.long_s - 50)
              => btn.result = "factory_reset"

\* A button never released under max_wait_s = 21 and long_hold_s = 20.
C17_Witness ==
    /\ Measured
    /\ btn.last
    /\ btn.max_wait_s = 21
    /\ btn.long_s = 20
    /\ btn.polls >= 210
    /\ btn.result = "factory_reset"

\* C18: a saved time reads back as saved, for unsigned 64-bit values from 0
\* to 2^64 - 1, when the write and the read go through; it is stored as 8
\* little-endian bytes followed by zeros up to 32 bytes. The seconds the
\* gatekeeper saves are stored the same way.
C18_RoundTrip ==
    /\ (store.pc = "read" /\ store.wrote /\ store.read_ok)
         => store.back = store.value
    /\ (store.pc \in {"saved", "read"} /\ store.wrote) =>
         /\ Len(rtc_mem) = 32
         /\ \A i \in 1..32 : rtc_mem[i] \in 0..255
         /\ \A i \in 9..32 : rtc_mem[i] = 0
         /\ \A k \in 1..4 :
              rtc_mem[2 * k - 1] + 256 * rtc_mem[2 * k] = store.value[k]
    /\ \A n \in 0..MaxClock :
         /\ PackLE(n, 8) = PackQ(U64(n))
         /\ GetLastMotionTime(SaveMotionTime(<<>>, n, TRUE), TRUE) = n

\* 2^64 - 1 saved and read back.
C18_Witness ==
    /\ store.pc = "read"
    /\ store.wrote
    /\ store.read_ok
    /\ store.value = <<65535, 65535, 65535, 65535>>
    /\ store.back = store.value

\* C19: reading the stored time never fails: with fewer than 8 bytes
\* retained, or when the read raises, it is taken as 0, and a pin-level wake
\* is then accepted.
C19_ReadFailsOpen ==
    /\ GetLastMotionTime(<<>>, TRUE) = 0
    /\ GetLastMotionTime(<<1, 2, 3, 4, 5, 6, 7>>, TRUE) = 0
    /\ GetLastMotionTime(<<1, 2, 3, 4, 5, 6, 7, 8>>, FALSE) = 0
    /\ (gates_done > 0 /\ (~gate_in.read_ok \/ gate_in.len < 8)) =>
         /\ gate_in.last = 0
         /\ decision.kind # "Suppress"
         /\ sleep_site \notin GateSites
         /\ wake_reason = "PIN_WAKE" => decision.kind = "Accept" /\ pin_accepted

\* A pin wake inside the interval, accepted because the read raised.
C19_Witness ==
    /\ gates_done > 0
    /\ wake_reason = "PIN_WAKE"
    /\ ~gate_in.read_ok
    /\ gate_in.len = 32
    /\ gate_in.prev > 0
    /\ gate_in.now - gate_in.prev < min_wake_interval
    /\ decision.kind = "Accept"

\* C20: light sleep is transient and deep sleep is terminal. The step that
\* ends a light sleep is the same loop going on, awake, with main_cycle's
\* state and the retained memory as they were and the indicator switched
\* back on, and it can be taken whenever the sleep's end lies within the
\* clock explored; the only step after a deep-sleep suspend is a start from
\* the program entry with fresh memory, the retained bytes kept or lost.
C20_LightTransientDeepTerminal ==
    [][/\ (pc = "light_sleep" /\ pc' # "entry") =>
            /\ pc' = "loop"
            /\ clock' = clock + sleep_secs
            /\ led_on' = (runtime_enabled \/ led_on)
            /\ UNCHANGED <<rtc_mem, cfgvars, wifi_connected, mqtt_session,
                           mqtt_connected, attempt, CONFIG_MODE_REQUEST,
                           CONFIG_MODE_DURATION, last_sensor_time, gatevars>>
       /\ (pc = "light_sleep" /\ clock + sleep_secs <= MaxClock)
            => ENABLED LightResume
       /\ pc = "deep_sleep" =>
            /\ pc' = "entry"
            /\ rtc_mem' \in {rtc_mem, <<>>}
            /\ ~led_on' /\ ~wifi_connected' /\ ~mqtt_session' /\ ~mqtt_connected'
            /\ ~CONFIG_MODE_REQUEST'
            /\ attempt' = 0 /\ last_sensor_time' = 0 /\ gates_done' = 0
            /\ UNCHANGED cfgvars]_vars

\* The loop awake again after a light sleep, still connected, indicator on.
C20_Witness ==
    /\ pc = "loop"
    /\ ~use_deep_sleep
    /\ sleep_site = "none"
    /\ sleep_secs > 0
    /\ mqtt_connected
    /\ wifi_connected
    /\ runtime_enabled
    /\ led_on

\* C21: the retained wake state is read and the wake reason evaluated by the
\* motion gatekeeper once per boot: no boot makes a second check_pir_wake
\* call after the first.
C21_OneGatePerBoot ==
    gates_done <= 1

\* Every available LED is logically lit / logically dark.
AllLit ==
    /\ ind.have_int => IntLit(ind.int_pin)
    /\ HaveExt(ind) => ExtLit(ind.ext_pin, ind.external_active_low)

AllDark ==
    /\ ind.have_int => ~IntLit(ind.int_pin)
    /\ HaveExt(ind) => ~ExtLit(ind.ext_pin, ind.external_active_low)

\* C22: after blink(times, delay, final_on) returns, with runtime
\* indications enabled, at least one LED available and the pin writes going
\* through, every available LED is logically on when final_on is true and
\* logically off when it is false, for every times >= 0 and prior state.
C22_BlinkEndsInFinalState ==
    (/\ ind.op = "blink"
     /\ ind.runtime_enabled
     /\ ind.have_int \/ HaveExt(ind)
     /\ ind.wr_ok)
    => IF ind.final_on THEN AllLit ELSE AllDark

\* C23: on() and off() act in polarity-corrected terms: for every polarity
\* of the external LED, with runtime indications enabled and the pin writes
\* going through, every available LED is lit after on() and dark after off().
C23_PolarityCorrected ==
    (ind.runtime_enabled /\ ind.wr_ok)
    => /\ ind.op = "on" => AllLit
       /\ ind.op = "off" => AllDark

\* C24: the runtime gate affects runtime indications only. With
\* runtime_enabled false, on(), off() and blink() change no pin; a started
\* AP blink runs its timer on the external LED if enabled, else on the
\* status LED, starting dark, and each tick flips that LED; ap_blink_stop()
\* stops the timer and leaves the AP LED dark (pin writes going through).
C24_GateIsRuntimeOnly ==
    ~ind.runtime_enabled =>
      /\ ind.op \in {"on", "off", "blink"} =>
           ind.int_pin = ind.prev_int /\ ind.ext_pin = ind.prev_ext
      /\ ind.op = "ap_start" =>
           /\ ind.ap_timer
           /\ ind.ap_led = IF ind.external_led_enabled THEN "ext" ELSE "int"
           /\ ind.wr_ok => ~ApLit(ind)
      /\ (ind.op = "ap_tick" /\ ind.wr_ok /\ ind.ap_led # "none") =>
           ApLit(ind) = ind.ap_state
      /\ ind.op = "ap_stop" =>
           /\ ~ind.ap_timer
           /\ (ind.wr_ok /\ ind.ap_led # "none") => ~ApLit(ind)

\* Runtime indications disabled, and the AP blink has just lit its LED.
C24_Witness ==
    /\ ~ind.runtime_enabled
    /\ ind.op = "ap_tick"
    /\ ind.ap_led = "int"
    /\ ind.wr_ok
    /\ ApLit(ind)

\* C25: off() is idempotent: a second off() in a row leaves every pin as
\* the first one left it, from any prior state and for either value of
\* runtime_enabled (the pin writes of the first call going through).
C25_OffIdempotent ==
    (ind.op = "off" /\ ind.offs = 2 /\ ind.off1_ok)
    => /\ ind.int_pin = ind.off1_int
       /\ ind.ext_pin = ind.off1_ext
       /\ ind.int_pin = ind.prev_int
       /\ ind.ext_pin = ind.prev_ext

\* Two off() calls in a row on LEDs that were lit before the first.
C25_Witness ==
    /\ ind.op = "off"
    /\ ind.offs = 2
    /\ ind.off1_ok
    /\ ind.wr_ok
    /\ ind.runtime_enabled
    /\ ind.have_int
    /\ HaveExt(ind)
    /\ AllDark

\* C26: a missing configuration key is never an error: for every stored
\* blob with any subset of keys absent (an absent or partial gpio or pir
\* section included) and for a missing or corrupt file, the getters and the
\* PIR wake set-up return normally, with the default for each missing key.
C26_MissingKeyIsDefault ==
    cfgm.op # "none" =>
      /\ ~cfgm.raised
      /\ cfgm.op \in {"get_gpio_config", "get_pir_config", "PIRWakeup"} =>
           cfgm.pir_pin = IF "gpio" \in cfgm.config.top
                             /\ "pir_pin" \in cfgm.config.gpio.keys
                          THEN StoredGpio.pir_pin ELSE DefaultPirPin
      /\ cfgm.op = "get_advanced_config" =>
           cfgm.sleep_interval = IF "sleep_interval" \in cfgm.config.top
                                 THEN StoredSleepInterval ELSE DefaultSleepInterval

C29_FlagAgreesAfterLightSleep ==
    [][(pc = "light_sleep" /\ pc' = "loop")
         => (mqtt_connected' <=> mqtt_session')]_vars

\* C30: every deep sleep the device is in has an effective wake source: a
\* timer of positive duration or a PIR level wake that was armed.
C30_DeepSleepHasWakeSource ==
    pc = "deep_sleep" => (sleep_secs > 0 \/ pir_armed)

\* C31: a boot of a configured device that main() takes on to the gatekeeper
\* or to main_cycle leaves the PIR section enabled; a section found disabled
\* is rewritten with use_deep_sleep false, a section found enabled keeps its
\* use_deep_sleep, and min_wake_interval is kept either way; and a sleep
\* taken at the loop's sleep decision always went through the PIR arming
\* (never a timer-only branch).
C31_PirEnabledAtLoop ==
    [][/\ (pc = "entry" /\ pc' \in {"gate_main", "wifi"}) =>
             /\ pir_enabled'
             /\ (~pir_enabled => ~use_deep_sleep')
             /\ (pir_enabled => use_deep_sleep' = use_deep_sleep)
             /\ min_wake_interval' = min_wake_interval
       /\ (pc = "loop" /\ pc' \in {"deep_sleep", "light_sleep"}) =>
             (pir_enabled /\ arm_tried')]_vars

\* The loop of a device that main() found with the PIR disabled has gone to
\* its sleep, a light sleep with the PIR interrupt set up.
C31_Witness ==
    /\ pir_found = "disabled"
    /\ pc = "light_sleep"
    /\ sleep_site = "loop"
    /\ arm_tried
    /\ pir_enabled
    /\ ~use_deep_sleep

\* C32: once set_pir_config has been called, whatever else was called and
\* whatever pin it was given, get_pir_config and the PIR wake set-up return
\* normally, and the pin they give is the pin of get_gpio_config.
C32_PirPinMirrorsGpio ==
    (cfgm.set_pin # 0 /\ cfgm.op \in {"get_pir_config", "PIRWakeup"}) =>
      /\ ~cfgm.raised
      /\ cfgm.pir_pin = Get(GetGpioConfig(cfgm.config), "pir_pin", 0)

\* C33: after every log write, at most max_files log files exist, all of
\* them the active file or a suffix below max_files; the active file was
\* smaller than max_file_size when the entry was appended; a write that
\* found the active file at its limit shifted each file .i to .i+1 (the
\* active file to .1) and started a new active file; and the rotated files
\* are otherwise left as they were.
C33_LogRing ==
    logf.op = "write" =>
      LET due == logf.prev[0].exists /\ logf.prev[0].size >= logf.max_file_size
      IN  /\ \A i \in Slots : logf.files[i].exists => i < logf.max_files
          /\ logf.size_before < logf.max_file_size
          /\ due =>
               /\ logf.files[0].size = logf.entry
               /\ \A i \in 0..(logf.max_files - 2) :
                    logf.files[i + 1] = logf.prev[i]
          /\ ~due =>
               /\ logf.files[0].size = logf.prev[0].size + logf.entry
               /\ \A i \in Slots \ {0} : logf.files[i] = logf.prev[i]

HaltedStep ==
    /\ pc' = "repl"
    /\ UNCHANGED <<button_hold, cfgvars, rtc_mem, last_accept, sleepvars,
                   gatevars, net_attempted, portal_opened, wifi_connected,
                   mqtt_connected, mqtt_session>>

HaltedBoot ==
    /\ ~net_attempted
    /\ portal_opened = 0
    /\ gates_done = 0
    /\ sleep_site = "none"
    /\ ~wifi_connected
    /\ ~mqtt_connected

\* C35 (as stated): a boot with the halt flag file present ends in main()'s
\* return at the halt check, before the button read, any portal, any
\* network connection, any write to the retained wake state and any sleep,
\* and nothing of that happens later in that boot.
C35_HaltFlagStopsBoot ==
    [][/\ (pc = "entry" /\ pc' # "entry"
              /\ boot_halt' \in {"found", "unlisted"}) => HaltedStep
       /\ pc = "repl" => (HaltedBoot /\ pc' = "entry")]_vars

\* C35 (amended): the same for a boot whose directory listing shows the
\* halt flag file.
C35_FoundHaltFlagStopsBoot ==
    [][/\ (pc = "entry" /\ pc' # "entry" /\ boot_halt' = "found") => HaltedStep
       /\ pc = "repl" => (HaltedBoot /\ pc' = "entry")]_vars

\* main() has returned at its halt check while the user held the button
\* long enough for a factory reset.
C35_Witness ==
    /\ pc = "repl"
    /\ boot_halt = "found"
    /\ button_hold >= 100 * LongHoldS
    /\ configured

====
